---- MODULE Spec2Model ----
(***************************************************************************)
(* A model of obslint (src/src/main.rs): the wikilink extractor            *)
(* `wikilinks`, the boundary helper `char_prior_to`, and the pipeline of   *)
(* `main` (extraction, vocabulary, searcher, per-note detection).          *)
(*                                                                         *)
(* A Rust `&str` is modelled as the sequence of its UTF-8 bytes (numbers   *)
(* 0..255); byte offsets of the code are 0-based, TLA+ sequences 1-based.  *)
(***************************************************************************)
EXTENDS Integers, Sequences, FiniteSets, TLC

VARIABLES
    s,            \* wikilinks: the text scanned so far (its bytes)
    n_brackets,   \* wikilinks: line 142
    in_wikilink,  \* wikilinks: line 143
    in_pipe,      \* wikilinks: line 144
    links,        \* wikilinks: line 145, the BTreeSet of slices
    start,        \* wikilinks: line 146
    end,          \* wikilinks: line 147
    nchars,       \* history: the number of iterations of the for loop so far
    nchunks,      \* history: the number of links and separators fed (SpecLinks)
    expected,     \* history: the targets of the well-formed links fed (SpecLinks)
    closes,       \* history: the <<start, end>> pairs of the slices taken at line 174
    pc,           \* "scan" (in the for loop), "done" (returned), "panicked"
    cpt_chars,    \* history: the code points the text of char_prior_to encodes
    cpt_bytes,    \* char_prior_to: line 199, the bytes of s
    cpt_arg,      \* history: the offset char_prior_to was called with
    cpt_i,        \* char_prior_to: the parameter i, decremented at line 206
    cpt_buf,      \* char_prior_to: line 204
    cpt_ret,      \* char_prior_to: the Option<char> returned
    cpt_pc,       \* "entry", "loop", "decode", "returned", "panicked"
    notes,        \* main: line 48, the contents of the notes (a note's path is its index)
    note_links,   \* main: line 55, the map from note to its set of targets
    all_links,    \* main: line 60
    searcher,     \* main: line 66, the patterns the automaton was built from
    found,        \* main: line 74, per note whose detection ran
    unlinked,     \* main: line 91, per note whose detection ran
    reports,      \* main: lines 93-102, the lines printed, in order
    main_pc,      \* "idle", "load", "error", "extract", "build", "detect",
                  \* "done", "panicked"
    walked,       \* main: line 41, the items the directory walk yields
    results       \* main: lines 48-50, the outputs of the process_file futures

scanVars == <<s, n_brackets, in_wikilink, in_pipe, links, start, end, closes, pc,
              nchars, nchunks, expected>>

cptVars == <<cpt_chars, cpt_bytes, cpt_arg, cpt_i, cpt_buf, cpt_ret, cpt_pc>>

loadVars == <<walked, results>>

runVars == <<notes, note_links, all_links, searcher, found, unlinked, reports,
             main_pc, loadVars>>

vars == <<scanVars, cptVars, runVars>>

----------------------------------------------------------------------------
(* Bounds of the model.                                                    *)

\* the longest text (in characters) the character-level scan is fed
MaxLen == 8

\* the most links and separators a well-formed text is made of
MaxChunks == 4

\* the longest text (in characters) char_prior_to is called on
MaxCptChars == 3

\* the number of notes of a run
NDocs == 2

\* the number of items the directory walk yields
NEntries == 2

----------------------------------------------------------------------------
(* Characters, as their UTF-8 encodings.                                   *)

LBracket == <<91>>
RBracket == <<93>>
Pipe     == <<124>>
LetterA  == <<97>>
\* U+6771, the three-byte character of the tests at lines 236-239
Higashi  == <<230, 157, 177>>

\* what the scan is fed: both brackets, the pipe, an ASCII letter and a
\* multi-byte letter
Alphabet == {LBracket, RBracket, Pipe, LetterA, Higashi}

\* char::len_utf8
len_utf8(c) == Len(c)

\* str::is_char_boundary: offset 0, the length, or a byte that starts a
\* character (as a signed byte, at least -0x40)
IsCharBoundary(t, k) ==
    \/ k = 0
    \/ k = Len(t)
    \/ (0 < k /\ k < Len(t) /\ (t[k + 1] < 128 \/ t[k + 1] >= 192))

\* whether `&t[a..b]` is taken without a panic (str slicing by a byte range)
SliceOk(t, a, b) ==
    /\ 0 <= a /\ a <= b /\ b <= Len(t)
    /\ IsCharBoundary(t, a) /\ IsCharBoundary(t, b)

\* `&t[a..b]`, where it is defined
Slice(t, a, b) == SubSeq(t, a + 1, b)

----------------------------------------------------------------------------
(* wikilinks, lines 141-196.  The loop body is a function of the locals,   *)
(* the text and the pair (i, c) that char_indices yields.                  *)

ScanInit ==
    [n_brackets |-> 0, in_wikilink |-> FALSE, in_pipe |-> FALSE,
     links |-> {}, start |-> 0, end |-> 0, closes |-> {}, panicked |-> FALSE]

OnOpenSingle(st, i, c) ==
    [st EXCEPT !.n_brackets = @ + 1, !.in_wikilink = TRUE,
               !.start = i + len_utf8(c)]

\* lines 150-160: `[`; at depth 2 neither branch is taken and the character
\* falls through to the rest of the body
OnOpen(st, i, c) ==
    IF st.n_brackets = 0
    THEN [st EXCEPT !.n_brackets = 1]
    ELSE [st EXCEPT !.n_brackets = 2, !.in_wikilink = TRUE,
                    !.start = i + len_utf8(c)]

CloseEndBeforeBoth(st, i, c) ==
    IF st.end < st.start THEN i - 2 * len_utf8(c) ELSE st.end

CloseEndIgnoringPipe(st, i, c) == i - len_utf8(c)

CloseEndStale(st, i, c) == st.end

\* lines 171-173: the end of the slice at a close
CloseEnd(st, i, c) ==
    IF st.end < st.start THEN i - len_utf8(c) ELSE st.end

OnCloseKeepingPipe(st, t, i, c) ==
    IF st.in_wikilink
    THEN LET e == IF st.end < st.start THEN i - len_utf8(c) ELSE st.end
         IN  IF SliceOk(t, st.start, e)
             THEN [st EXCEPT !.n_brackets = 0, !.in_wikilink = FALSE, !.end = e,
                             !.links = @ \cup {Slice(t, st.start, e)},
                             !.closes = @ \cup {<<st.start, e>>}]
             ELSE [st EXCEPT !.n_brackets = 0, !.in_wikilink = FALSE, !.end = e,
                             !.closes = @ \cup {<<st.start, e>>},
                             !.panicked = TRUE]
    ELSE [st EXCEPT !.n_brackets = 0]

\* lines 166-177: `]` at depth 1
OnClose(st, t, i, c) ==
    IF st.in_wikilink
    THEN LET e == CloseEnd(st, i, c)
         IN  IF SliceOk(t, st.start, e)
             THEN [st EXCEPT !.n_brackets = 0, !.in_wikilink = FALSE,
                             !.in_pipe = FALSE, !.end = e,
                             !.links = @ \cup {Slice(t, st.start, e)},
                             !.closes = @ \cup {<<st.start, e>>}]
             ELSE [st EXCEPT !.n_brackets = 0, !.in_wikilink = FALSE,
                             !.in_pipe = FALSE, !.end = e,
                             !.closes = @ \cup {<<st.start, e>>},
                             !.panicked = TRUE]
    ELSE [st EXCEPT !.n_brackets = 0]

OnInnerCloseClosing(st, t, i, c) == OnClose([st EXCEPT !.n_brackets = 1], t, i, c)

OnInnerCloseCounting(st, t, i, c) == [st EXCEPT !.n_brackets = @ + 1]

\* lines 163-165: `]` at depth 2 closes the inner bracket only
OnInnerClose(st, t, i, c) == [st EXCEPT !.n_brackets = 1]

\* lines 184-188: the first `|` inside a link
OnPipe(st, i) == [st EXCEPT !.in_pipe = TRUE, !.end = i]

\* lines 150-192: one iteration of the for loop; t is the text, c the
\* character at byte offset i
LoopBody(st, t, i, c) ==
    IF c = LBracket /\ st.n_brackets \in {0, 1} THEN OnOpen(st, i, c)
    ELSE IF c = RBracket /\ st.n_brackets = 2 THEN OnInnerClose(st, t, i, c)
    ELSE IF c = RBracket /\ st.n_brackets = 1 THEN OnClose(st, t, i, c)
    ELSE IF ~st.in_wikilink THEN st
    ELSE IF c = Pipe /\ ~st.in_pipe THEN OnPipe(st, i)
    ELSE st

\* the locals of the running scan, as a record
Locals ==
    [n_brackets |-> n_brackets, in_wikilink |-> in_wikilink, in_pipe |-> in_pipe,
     links |-> links, start |-> start, end |-> end, closes |-> closes,
     panicked |-> (pc = "panicked")]

\* the length of the character whose first byte is b (UTF-8 lead bytes)
CharLen(b) ==
    IF b < 128 THEN 1 ELSE IF b < 224 THEN 2 ELSE IF b < 240 THEN 3 ELSE 4

\* the number of characters of a text
RECURSIVE NChars(_, _)
NChars(t, i) ==
    IF i >= Len(t) THEN 0 ELSE 1 + NChars(t, i + CharLen(t[i + 1]))

\* lines 149-193: the for loop over char_indices from byte offset i on; a
\* panic at line 174 unwinds out of the loop
RECURSIVE Scan(_, _, _)
Scan(st, t, i) ==
    IF i >= Len(t) \/ st.panicked THEN st
    ELSE LET n == CharLen(t[i + 1])
         IN  Scan(LoopBody(st, t, i, SubSeq(t, i + 1, i + n)), t, i + n)

\* lines 141-196: the whole function, as the final locals
wikilinks(t) == Scan(ScanInit, t, 0)

Install(st, t) ==
    /\ s' = t
    /\ n_brackets' = st.n_brackets
    /\ in_wikilink' = st.in_wikilink
    /\ in_pipe' = st.in_pipe
    /\ links' = st.links
    /\ start' = st.start
    /\ end' = st.end
    /\ closes' = st.closes
    /\ pc' = IF st.panicked THEN "panicked" ELSE "scan"

\* line 149: char_indices yields the next character c, at byte offset Len(s)
ScanChar(c) ==
    /\ pc = "scan"
    /\ nchars < MaxLen
    /\ nchars' = nchars + 1
    /\ Install(LoopBody(Locals, s \o c, Len(s), c), s \o c)
    /\ UNCHANGED <<nchunks, expected>>
    /\ UNCHANGED <<cptVars, runVars>>

\* line 195: the text is exhausted, the set is returned
Return ==
    /\ pc = "scan"
    /\ pc' = "done"
    /\ UNCHANGED <<s, n_brackets, in_wikilink, in_pipe, links, start, end, closes,
                   nchars, nchunks, expected>>
    /\ UNCHANGED <<cptVars, runVars>>

\* the locals of wikilinks before its loop
ScanStart ==
    /\ s = <<>>
    /\ n_brackets = 0
    /\ in_wikilink = FALSE
    /\ in_pipe = FALSE
    /\ links = {}
    /\ start = 0
    /\ end = 0
    /\ closes = {}
    /\ pc = "scan"
    /\ nchars = 0
    /\ nchunks = 0
    /\ expected = {}

\* char_prior_to not called
CptIdle ==
    /\ cpt_chars = <<>>
    /\ cpt_bytes = <<>>
    /\ cpt_arg = 0
    /\ cpt_i = 0
    /\ cpt_buf = <<>>
    /\ cpt_ret = [kind |-> "none", ch |-> -1]
    /\ cpt_pc = "entry"

\* main not run
RunIdle ==
    /\ notes = <<>>
    /\ note_links = <<>>
    /\ all_links = {}
    /\ searcher = {}
    /\ found = <<>>
    /\ unlinked = <<>>
    /\ reports = <<>>
    /\ main_pc = "idle"
    /\ walked = <<>>
    /\ results = <<>>

Init == ScanStart /\ CptIdle /\ RunIdle

Next ==
    \/ \E c \in Alphabet : ScanChar(c)
    \/ Return

\* wikilinks on every text of at most MaxLen characters over Alphabet
Spec == Init /\ [][Next]_vars

----------------------------------------------------------------------------
(* wikilinks on well-formed texts: links `[[T]]` and `[[T|A]]` separated   *)
(* by bracket-free text.                                                   *)

Newline == <<10>>

\* link targets: non-empty, no `[`, `]` or `|`; one spans a line break
Targets == {LetterA, Higashi, LetterA \o Newline \o Higashi}

\* aliases: no `[` or `]`; may be empty, may hold further pipes
Aliases == {<<>>, LetterA, Higashi \o Pipe \o LetterA}

\* text between links: no `[` or `]`
Separators == {LetterA, Newline \o Higashi, Pipe}

\* the for loop of lines 149-193 run over the characters of chunk, which
\* follow the text scanned so far
Feed(chunk) ==
    /\ pc = "scan"
    /\ nchunks < MaxChunks
    /\ nchunks' = nchunks + 1
    /\ nchars' = nchars + NChars(chunk, 0)
    /\ Install(Scan(Locals, s \o chunk, Len(s)), s \o chunk)
    /\ UNCHANGED <<cptVars, runVars>>

\* the text goes on with the link `[[T]]`
FeedLink(T) ==
    /\ Feed(LBracket \o LBracket \o T \o RBracket \o RBracket)
    /\ expected' = expected \cup {T}

\* the text goes on with the link `[[T|A]]`
FeedPipedLink(T, A) ==
    /\ Feed(LBracket \o LBracket \o T \o Pipe \o A \o RBracket \o RBracket)
    /\ expected' = expected \cup {T}

\* the text goes on with bracket-free text
FeedText(sep) ==
    /\ Feed(sep)
    /\ UNCHANGED expected

NextLinks ==
    \/ \E T \in Targets : FeedLink(T)
    \/ \E T \in Targets, A \in Aliases : FeedPipedLink(T, A)
    \/ \E sep \in Separators : FeedText(sep)
    \/ Return

\* wikilinks on every well-formed text of at most MaxChunks links and separators
SpecLinks == Init /\ [][NextLinks]_vars

----------------------------------------------------------------------------
(* char_prior_to, lines 198-220.                                           *)

None == [kind |-> "none", ch |-> -1]
Some(c) == [kind |-> "some", ch |-> c]
Panicked == [kind |-> "panic", ch |-> -1]

IsContinuationTopBit(b) == b >= 128

\* line 209: a UTF-8 continuation byte, (b & 0b11000000) == 0b10000000
IsContinuation(b) == (b \div 64) = 2

\* std::str::from_utf8 on the bytes of b from offset k on: well-formed UTF-8
RECURSIVE Utf8Valid(_, _)
Utf8Valid(b, k) ==
    IF k >= Len(b) THEN TRUE
    ELSE LET l == b[k + 1]
             cont(j) == k + j <= Len(b) /\ IsContinuation(b[k + j])
         IN  IF l < 128 THEN Utf8Valid(b, k + 1)
             ELSE IF 194 <= l /\ l <= 223
                  THEN cont(2) /\ Utf8Valid(b, k + 2)
             ELSE IF 224 <= l /\ l <= 239
                  THEN /\ cont(2) /\ cont(3)
                       /\ (l = 224 => b[k + 2] >= 160)
                       /\ (l = 237 => b[k + 2] <= 159)
                       /\ Utf8Valid(b, k + 3)
             ELSE IF 240 <= l /\ l <= 244
                  THEN /\ cont(2) /\ cont(3) /\ cont(4)
                       /\ (l = 240 => b[k + 2] >= 144)
                       /\ (l = 244 => b[k + 2] <= 143)
                       /\ Utf8Valid(b, k + 4)
             ELSE FALSE

\* str::chars().next() on well-formed, non-empty UTF-8: the first code point
DecodeFirst(b) ==
    LET l == b[1]
        x(j) == b[j] - 128
    IN  IF l < 128 THEN l
        ELSE IF l < 224 THEN (l - 192) * 64 + x(2)
        ELSE IF l < 240 THEN (l - 224) * 4096 + x(2) * 64 + x(3)
        ELSE (l - 240) * 262144 + x(2) * 4096 + x(3) * 64 + x(4)

\* Vec::reverse
RECURSIVE Reverse(_)
Reverse(b) == IF b = <<>> THEN <<>> ELSE Append(Reverse(Tail(b)), Head(b))

\* line 200: the offsets for which None is returned at once
CptGuard(i, bytes) == i > Len(bytes) \/ i = 0

\* lines 206-211: one iteration of the while loop, entered with i > 0
CptIter(bytes, i, buf) ==
    [i |-> i - 1, buf |-> Append(buf, bytes[i]), brk |-> ~IsContinuation(bytes[i])]

\* lines 205-212: the while loop
RECURSIVE CptLoop(_, _, _)
CptLoop(bytes, i, buf) ==
    IF i > 0
    THEN LET r == CptIter(bytes, i, buf)
         IN  IF r.brk THEN r.buf ELSE CptLoop(bytes, r.i, r.buf)
    ELSE buf

\* lines 214-219: the result from the bytes walked; unwrap panics on bytes
\* that are not well-formed UTF-8
CptFinish(buf) ==
    IF buf = <<>> THEN None
    ELSE IF Utf8Valid(Reverse(buf), 0) THEN Some(DecodeFirst(Reverse(buf)))
    ELSE Panicked

\* lines 198-220: the whole function
char_prior_to(i, bytes) ==
    IF CptGuard(i, bytes) THEN None ELSE CptFinish(CptLoop(bytes, i, <<>>))

\* the characters char_prior_to is tried on, one per encoded length:
\* `h`, U+00E9, U+20AC (the tests at lines 245-251) and U+1F600
CptAlphabet ==
    {[cp |-> 104, enc |-> <<104>>],
     [cp |-> 233, enc |-> <<195, 169>>],
     [cp |-> 8364, enc |-> <<226, 130, 172>>],
     [cp |-> 128512, enc |-> <<240, 159, 152, 128>>]}

\* the sequences of at most n characters of A
RECURSIVE CharSeqs(_, _)
CharSeqs(A, n) ==
    IF n = 0 THEN {<<>>}
    ELSE LET P == CharSeqs(A, n - 1)
         IN  P \cup {Append(p, c) : p \in P, c \in A}

\* the UTF-8 encoding of a sequence of characters
RECURSIVE Encode(_)
Encode(cs) == IF cs = <<>> THEN <<>> ELSE Head(cs).enc \o Encode(Tail(cs))

\* a call char_prior_to(i, s) on a text of at most MaxCptChars characters,
\* with every offset up to one past its length
CptCall ==
    /\ cpt_chars \in CharSeqs(CptAlphabet, MaxCptChars)
    /\ cpt_bytes = Encode(cpt_chars)
    /\ cpt_arg \in 0..(Len(cpt_bytes) + 1)
    /\ cpt_i = cpt_arg
    /\ cpt_buf = <<>>
    /\ cpt_ret = None
    /\ cpt_pc = "entry"

\* lines 200-204
CptEnter ==
    /\ cpt_pc = "entry"
    /\ IF CptGuard(cpt_i, cpt_bytes)
       THEN cpt_pc' = "returned" /\ cpt_ret' = None
       ELSE cpt_pc' = "loop" /\ UNCHANGED cpt_ret
    /\ UNCHANGED <<cpt_chars, cpt_bytes, cpt_arg, cpt_i, cpt_buf>>
    /\ UNCHANGED <<scanVars, runVars>>

\* lines 205-212: the loop condition and one iteration
CptWalk ==
    /\ cpt_pc = "loop"
    /\ IF cpt_i > 0
       THEN LET r == CptIter(cpt_bytes, cpt_i, cpt_buf)
            IN  /\ cpt_i' = r.i
                /\ cpt_buf' = r.buf
                /\ cpt_pc' = IF r.brk THEN "decode" ELSE "loop"
       ELSE cpt_pc' = "decode" /\ UNCHANGED <<cpt_i, cpt_buf>>
    /\ UNCHANGED <<cpt_chars, cpt_bytes, cpt_arg, cpt_ret>>
    /\ UNCHANGED <<scanVars, runVars>>

\* lines 214-219
CptDecode ==
    /\ cpt_pc = "decode"
    /\ LET r == CptFinish(cpt_buf)
       IN  /\ cpt_ret' = r
           /\ cpt_pc' = IF r = Panicked THEN "panicked" ELSE "returned"
    /\ UNCHANGED <<cpt_chars, cpt_bytes, cpt_arg, cpt_i, cpt_buf>>
    /\ UNCHANGED <<scanVars, runVars>>

InitCpt == ScanStart /\ CptCall /\ RunIdle

NextCpt == CptEnter \/ CptWalk \/ CptDecode

\* char_prior_to on every text of at most MaxCptChars characters and every offset
SpecCpt == InitCpt /\ [][NextCpt]_vars

----------------------------------------------------------------------------
(* main, lines 55-104: extraction, vocabulary, searcher, detection.        *)

LetterB == <<98>>
Space   == <<32>>
\* U+20AC, a multi-byte character that is not alphanumeric (line 248)
Euro    == <<226, 130, 172>>

\* char::is_alphanumeric, on the characters the notes are written with:
\* ASCII digits and letters, the letters of Latin-1, the CJK ideographs
IsAlphanumeric(c) ==
    \/ (48 <= c /\ c <= 57)
    \/ (65 <= c /\ c <= 90)
    \/ (97 <= c /\ c <= 122)
    \/ c \in {170, 181, 186}
    \/ (192 <= c /\ c <= 255 /\ c \notin {215, 247})
    \/ (19968 <= c /\ c <= 40959)

AllLinksUnfiltered(lk) == UNION {lk[d] : d \in DOMAIN lk}

\* lines 60-64: every target of every note, the empty ones filtered out
AllLinks(lk) == {l \in UNION {lk[d] : d \in DOMAIN lk} : l # <<>>}

\* the patterns of P that occur in t at byte offset k
MatchesAt(P, t, k) ==
    {p \in P : k + Len(p) <= Len(t) /\ SubSeq(t, k + 1, k + Len(p)) = p}

\* the greatest length among the patterns of M
Longest(M) == CHOOSE n \in {Len(p) : p \in M} : \A p \in M : Len(p) <= n

\* lines 66-69, 75: find_iter of a LeftmostLongest automaton over the
\* non-empty patterns P: the non-overlapping matches, each the longest
\* pattern at the leftmost offset where any pattern occurs, from offset k on
RECURSIVE FindIter(_, _, _)
FindIter(P, t, k) ==
    IF k >= Len(t) THEN <<>>
    ELSE LET M == MatchesAt(P, t, k)
         IN  IF M = {} THEN FindIter(P, t, k + 1)
             ELSE <<[start |-> k, end |-> k + Longest(M)]>>
                      \o FindIter(P, t, k + Longest(M))

\* line 82: `content[end..].chars().next()`
CharFrom(t, k) ==
    IF ~SliceOk(t, k, Len(t)) THEN Panicked
    ELSE IF k = Len(t) THEN None
    ELSE Some(DecodeFirst(SubSeq(t, k + 1, Len(t))))

BoundaryAfterOnly(t, m) ==
    LET after == CharFrom(t, m.end)
    IN  IF after = Panicked THEN "panic"
        ELSE IF after.kind = "some" /\ IsAlphanumeric(after.ch) THEN "skip"
        ELSE "keep"

BoundaryAnyNeighbour(t, m) ==
    LET before == char_prior_to(m.start, t)
        after == CharFrom(t, m.end)
    IN  IF before = Panicked \/ after = Panicked THEN "panic"
        ELSE IF before.kind = "some" \/ after.kind = "some" THEN "skip"
        ELSE "keep"

\* lines 76-86: "keep" when neither neighbour of the match is alphanumeric,
\* "skip" when one is, "panic" when a neighbour cannot be read
Boundary(t, m) ==
    LET before == char_prior_to(m.start, t)
        after == CharFrom(t, m.end)
    IN  IF before = Panicked THEN "panic"
        ELSE IF before.kind = "some" /\ IsAlphanumeric(before.ch) THEN "skip"
        ELSE IF after = Panicked THEN "panic"
        ELSE IF after.kind = "some" /\ IsAlphanumeric(after.ch) THEN "skip"
        ELSE "keep"

\* lines 74-89: the loop over the matches ms, from the n-th on; a panic
\* unwinds out of the task
RECURSIVE FoundLoop(_, _, _, _)
FoundLoop(t, ms, n, acc) ==
    IF n > Len(ms) THEN [found |-> acc, panicked |-> FALSE]
    ELSE LET b == Boundary(t, ms[n])
         IN  IF b = "panic" THEN [found |-> acc, panicked |-> TRUE]
             ELSE IF b = "skip" THEN FoundLoop(t, ms, n + 1, acc)
             ELSE IF ~SliceOk(t, ms[n].start, ms[n].end)
                  THEN [found |-> acc, panicked |-> TRUE]
             ELSE FoundLoop(t, ms, n + 1,
                            acc \cup {Slice(t, ms[n].start, ms[n].end)})

UnlinkedKeepingDeclared(fnd, lk) == fnd

\* line 91: found.difference(links)
Unlinked(fnd, lk) == fnd \ lk

\* the notes a run is tried on
Pool ==
    {<<>>,
     LetterA,
     LetterA \o LetterB,
     LetterA \o Space \o LetterB,
     Higashi \o LetterA,
     Euro \o LetterA \o Euro,
     LBracket \o LBracket \o LetterA \o RBracket \o RBracket,
     LBracket \o LBracket \o LetterA \o RBracket \o RBracket \o Space \o LetterA,
     LBracket \o LBracket \o LetterB \o Pipe \o LetterA \o RBracket \o RBracket,
     LBracket \o LBracket \o LetterA \o RBracket \o RBracket \o Space \o LetterB,
     LBracket \o LBracket \o LetterB \o RBracket \o RBracket \o Space \o LetterA,
     LBracket \o LBracket \o LetterA \o Space \o LetterB \o RBracket \o RBracket,
     LBracket \o LBracket \o Higashi \o RBracket \o RBracket \o LetterA \o Higashi,
     LBracket \o LBracket \o RBracket \o RBracket,
     LBracket \o LBracket \o RBracket \o Higashi \o RBracket}

\* the notes of the run, by their index in the Vec of line 48
Notes == DOMAIN notes

\* lines 43-53: the notes are loaded
RunStart ==
    /\ notes \in [1..NDocs -> Pool]
    /\ note_links = <<>>
    /\ all_links = {}
    /\ searcher = {}
    /\ found = <<>>
    /\ unlinked = <<>>
    /\ reports = <<>>
    /\ main_pc = "extract"
    /\ walked = <<>>
    /\ results = <<>>

\* lines 55-58: one task of the parallel map; a panic in wikilinks is
\* propagated to main
Extract(d) ==
    /\ main_pc = "extract"
    /\ d \notin DOMAIN note_links
    /\ LET r == wikilinks(notes[d])
       IN  IF r.panicked
           THEN main_pc' = "panicked" /\ UNCHANGED note_links
           ELSE note_links' = note_links @@ (d :> r.links) /\ UNCHANGED main_pc
    /\ UNCHANGED <<notes, all_links, searcher, found, unlinked, reports>>
    /\ UNCHANGED <<scanVars, cptVars, loadVars>>

SomeExtracted(lk) == DOMAIN lk # {}

\* line 58: collect returns once every task of the parallel map is over
AllExtracted(lk) == DOMAIN lk = Notes

\* lines 58-64: the map is collected once every task is over, then the
\* vocabulary is computed from it
BuildVocabulary ==
    /\ main_pc = "extract"
    /\ AllExtracted(note_links)
    /\ all_links' = AllLinks(note_links)
    /\ main_pc' = "build"
    /\ UNCHANGED <<notes, note_links, searcher, found, unlinked, reports>>
    /\ UNCHANGED <<scanVars, cptVars, loadVars>>

\* lines 66-69
BuildSearcher ==
    /\ main_pc = "build"
    /\ searcher' = all_links
    /\ main_pc' = "detect"
    /\ UNCHANGED <<notes, note_links, all_links, found, unlinked, reports>>
    /\ UNCHANGED <<scanVars, cptVars, loadVars>>

FoundStartShared(fd) == UNION {fd[d] : d \in DOMAIN fd}

\* line 74: each task starts from its own empty set
FoundStart(fd) == {}

\* lines 71-104: one task of the parallel for_each; the unwrap of line 72
\* panics for a note the map does not hold
Detect(d) ==
    /\ main_pc = "detect"
    /\ d \notin DOMAIN found
    /\ LET r == FoundLoop(notes[d], FindIter(searcher, notes[d], 0), 1,
                          FoundStart(found))
           u == IF d \in DOMAIN note_links
                THEN Unlinked(r.found, note_links[d]) ELSE {}
       IN  IF r.panicked \/ d \notin DOMAIN note_links
           THEN main_pc' = "panicked" /\ UNCHANGED <<found, unlinked, reports>>
           ELSE /\ found' = found @@ (d :> r.found)
                /\ unlinked' = unlinked @@ (d :> u)
                /\ reports' = IF u # {} THEN Append(reports, <<d, u>>) ELSE reports
                /\ UNCHANGED main_pc
    /\ UNCHANGED <<notes, note_links, all_links, searcher>>
    /\ UNCHANGED <<scanVars, cptVars, loadVars>>

\* line 106: every task is over, main returns Ok
Finish ==
    /\ main_pc = "detect"
    /\ DOMAIN found = Notes
    /\ main_pc' = "done"
    /\ UNCHANGED <<notes, note_links, all_links, searcher, found, unlinked, reports>>
    /\ UNCHANGED <<scanVars, cptVars, loadVars>>

InitRun == ScanStart /\ CptIdle /\ RunStart

NextRun ==
    \/ \E d \in Notes : Extract(d)
    \/ BuildVocabulary
    \/ BuildSearcher
    \/ \E d \in Notes : Detect(d)
    \/ Finish

\* a run of main on NDocs notes of Pool
SpecRun == InitRun /\ [][NextRun]_vars

----------------------------------------------------------------------------
(* main, lines 41-53: the loading of the notes.                            *)

\* the Result<Option<Note>, Error> of process_file
Err == [tag |-> "err", content |-> <<>>]
OkNone == [tag |-> "none", content |-> <<>>]
OkSome(content) == [tag |-> "some", content |-> content]

\* the contents of the files of a walk
Contents ==
    {LetterA,
     LBracket \o LBracket \o LetterA \o RBracket \o RBracket \o Space \o LetterB,
     LBracket \o LBracket \o LetterB \o RBracket \o RBracket \o Space \o LetterA}

\* what the walk can yield: an error of the walk itself; a path that does
\* not end in ".md"; a directory whose name ends in ".md"; a ".md" path on
\* which open, metadata or read_to_string fails; a ".md" file that is read
Entries ==
    {[kind |-> k, content |-> <<>>] :
        k \in {"walk_err", "other", "dir", "open_err", "meta_err", "read_err"}}
    \cup {[kind |-> "file", content |-> c] : c \in Contents}

\* line 41: filter_map(|e| e.ok()) drops the errors of the walk
Paths == SelectSeq(walked, LAMBDA e : e.kind # "walk_err")

process_fileSkipping(e) ==
    IF e.kind = "file" THEN OkSome(e.content) ELSE OkNone

\* lines 109-139
process_file(e) ==
    IF e.kind = "other" THEN OkNone
    ELSE IF e.kind = "open_err" THEN Err
    ELSE IF e.kind = "meta_err" THEN Err
    ELSE IF e.kind = "dir" THEN OkNone
    ELSE IF e.kind = "read_err" THEN Err
    ELSE OkSome(e.content)

\* lines 51-53: into_iter().filter_map(|o| o).collect() of the outputs rs
Collect(rs) ==
    LET somes == SelectSeq(rs, LAMBDA r : r.tag = "some")
    IN  [k \in 1..Len(somes) |-> somes[k].content]

\* line 41: the walk of the directory
LoadStart ==
    /\ walked \in [1..NEntries -> Entries]
    /\ results = <<>>
    /\ notes = <<>>
    /\ note_links = <<>>
    /\ all_links = {}
    /\ searcher = {}
    /\ found = <<>>
    /\ unlinked = <<>>
    /\ reports = <<>>
    /\ main_pc = "load"

\* lines 48-50: the k-th future completes; on the first Err try_join_all
\* resolves to it, and `?` returns it from main
ProcessFile(k) ==
    /\ main_pc = "load"
    /\ k \in 1..Len(Paths)
    /\ k \notin DOMAIN results
    /\ LET r == process_file(Paths[k])
       IN  /\ results' = results @@ (k :> r)
           /\ main_pc' = IF r.tag = "err" THEN "error" ELSE "load"
    /\ UNCHANGED <<notes, note_links, all_links, searcher, found, unlinked,
                   reports, walked>>
    /\ UNCHANGED <<scanVars, cptVars>>

\* lines 48-53: every future completed with Ok; the notes are collected
JoinAll ==
    /\ main_pc = "load"
    /\ DOMAIN results = 1..Len(Paths)
    /\ notes' = Collect([k \in 1..Len(Paths) |-> results[k]])
    /\ main_pc' = "extract"
    /\ UNCHANGED <<note_links, all_links, searcher, found, unlinked, reports,
                   loadVars>>
    /\ UNCHANGED <<scanVars, cptVars>>

InitLoad == ScanStart /\ CptIdle /\ LoadStart

NextLoad ==
    \/ \E k \in 1..NEntries : ProcessFile(k)
    \/ JoinAll
    \/ \E d \in Notes : Extract(d)
    \/ BuildVocabulary
    \/ BuildSearcher
    \/ \E d \in Notes : Detect(d)
    \/ Finish

\* a run of main over a walk of NEntries items; the executor keeps polling
\* the futures of line 48 until each has completed or one has failed
SpecLoad ==
    InitLoad /\ [][NextLoad]_vars /\ WF_vars(\E k \in 1..NEntries : ProcessFile(k))

----------------------------------------------------------------------------
(* What the claims speak of.                                               *)

\* the number of bytes of t equal to b
Count(t, b) == Cardinality({k \in 1..Len(t) : t[k] = b})

\* pat occurs in t as a contiguous run of bytes
HasSub(t, pat) ==
    \E k \in 0..(Len(t) - Len(pat)) : SubSeq(t, k + 1, k + Len(pat)) = pat

\* the byte of t at the 0-based offset k, or -1 outside the text
At(t, k) == IF 0 <= k /\ k < Len(t) THEN t[k + 1] ELSE -1

\* b is the byte of a bracket
IsBracket(b) == b = LBracket[1] \/ b = RBracket[1]

\* no `[` follows a `[` without a `]` in between: among the brackets of t,
\* no two `[` are neighbours
NeverNested(t) ==
    LET bs == SelectSeq(t, IsBracket)
    IN  \A k \in 1..(Len(bs) - 1) : ~(bs[k] = LBracket[1] /\ bs[k + 1] = LBracket[1])

C2_NoPanicNoSplit ==
    /\ pc # "panicked"
    /\ \A cl \in closes : IsCharBoundary(s, cl[1]) /\ IsCharBoundary(s, cl[2])

\* C4: no string returned by wikilinks contains the character `|`.
C4_NoPipeInTarget == \A l \in links : Count(l, Pipe[1]) = 0

\* C5: every slice taken at a link close is directly preceded by `[[` and
\* directly followed by `|` or by `]]`.
C5_BetweenDoubleBrackets ==
    \A cl \in closes :
        /\ At(s, cl[1] - 1) = LBracket[1] /\ At(s, cl[1] - 2) = LBracket[1]
        /\ \/ At(s, cl[2]) = Pipe[1]
           \/ (At(s, cl[2]) = RBracket[1] /\ At(s, cl[2] + 1) = RBracket[1])

\* C6: a text with fewer than two `[` or fewer than two `]` makes wikilinks
\* return the empty set.
C6_UnterminatedGivesNothing ==
    (Count(s, LBracket[1]) < 2 \/ Count(s, RBracket[1]) < 2)
        => (links = {} /\ pc # "panicked")

\* C6 witness: a link opened by `[[` and never closed, the text returned
C6_Witness ==
    /\ pc = "done"
    /\ in_wikilink
    /\ Count(s, LBracket[1]) >= 2
    /\ Count(s, RBracket[1]) = 1
    /\ Count(s, Pipe[1]) >= 1

\* C7: a text whose brackets are never nested makes wikilinks return the
\* empty set.
C7_SingleBracketsGiveNothing ==
    NeverNested(s) => (links = {} /\ pc # "panicked")

\* C7 witness: two single-bracket groups, one around a multi-byte character
C7_Witness ==
    /\ pc = "done"
    /\ NeverNested(s)
    /\ HasSub(s, LBracket \o Higashi \o RBracket)
    /\ HasSub(s, LBracket \o LetterA \o RBracket \o LetterA)
    /\ Count(s, LBracket[1]) = 2

\* C3: on a text made of well-formed links `[[T]]` and `[[T|A]]` separated
\* by bracket-free text, wikilinks returns exactly the set of the T's.
C3_WellFormedLinks == pc # "panicked" /\ links = expected

\* C3 witness: a returned text with a piped link, a link whose target spans a
\* line break, a repeated target and two distinct targets
C3_Witness ==
    /\ pc = "done"
    /\ nchunks = MaxChunks
    /\ Cardinality(links) = 2
    /\ LetterA \o Newline \o Higashi \in links
    /\ HasSub(s, Pipe \o Higashi \o Pipe \o LetterA \o RBracket)
    /\ Cardinality(closes) = 3

\* the 0-based index of the character of cs whose encoding ends at byte
\* offset k, or -1 when k does not end a character
RECURSIVE EndingAt(_, _, _)
EndingAt(cs, k, n) ==
    IF n > Len(cs) THEN -1
    ELSE IF Len(Encode(SubSeq(cs, 1, n))) = k THEN n
    ELSE EndingAt(cs, k, n + 1)

\* C8: char_prior_to(i, s) returns None exactly when i is 0 or i exceeds the
\* length of s; for a character boundary i with 0 < i <= len(s) it returns
\* the character whose encoding ends at i; it walks back at most 4 bytes.
C8_CharPriorTo ==
    /\ Len(cpt_buf) <= 4
    /\ (cpt_pc \in {"returned", "panicked"}) =>
        /\ (cpt_pc = "returned" /\ cpt_ret = None)
               <=> (cpt_arg = 0 \/ cpt_arg > Len(cpt_bytes))
        /\ (0 < cpt_arg /\ cpt_arg <= Len(cpt_bytes)
               /\ EndingAt(cpt_chars, cpt_arg, 1) # -1)
               => /\ cpt_pc = "returned"
                  /\ cpt_ret = Some(cpt_chars[EndingAt(cpt_chars, cpt_arg, 1)].cp)
                  /\ Reverse(cpt_buf) = cpt_chars[EndingAt(cpt_chars, cpt_arg, 1)].enc

\* C8 witness: the four-byte character after a one-byte one, found from the
\* end of the text
C8_Witness ==
    /\ cpt_pc = "returned"
    /\ Len(cpt_chars) = 2
    /\ cpt_arg = Len(cpt_bytes)
    /\ cpt_arg = 5
    /\ Len(cpt_buf) = 4
    /\ cpt_ret = Some(128512)

\* the matches of the searcher in note d that pass the boundary filter
Survivors(d) ==
    LET ms == FindIter(searcher, notes[d], 0)
    IN  {Slice(notes[d], ms[n].start, ms[n].end) :
            n \in {k \in 1..Len(ms) : Boundary(notes[d], ms[k]) = "keep"}}

\* C9: the vocabulary handed to the matcher builder holds every non-empty
\* target declared by any note, no empty string, and nothing that no note
\* declares.
C9_Vocabulary ==
    (main_pc \in {"build", "detect", "done"}) =>
        /\ \A d \in Notes : \A l \in note_links[d] : l # <<>> => l \in all_links
        /\ <<>> \notin all_links
        /\ \A l \in all_links : \E d \in Notes : l \in note_links[d]
        /\ (main_pc # "build" => searcher = all_links)

\* C9 witness: the searcher built for a run in which one note declares the
\* empty target and another a non-empty one
C9_Witness ==
    /\ main_pc = "detect"
    /\ \E d \in Notes : <<>> \in note_links[d]
    /\ \E d \in Notes : LetterA \in note_links[d]
    /\ searcher = {LetterA}

\* C10: for every note, the reported set is a subset of the matcher hits
\* that survive the boundary filter and is disjoint from the note's own
\* declared targets.
C10_ReportedNotDeclared ==
    /\ \A d \in DOMAIN unlinked :
        /\ unlinked[d] \subseteq Survivors(d)
        /\ unlinked[d] \cap note_links[d] = {}
    /\ \A n \in 1..Len(reports) :
        /\ reports[n][2] \subseteq Survivors(reports[n][1])
        /\ reports[n][2] \cap note_links[reports[n][1]] = {}

\* C10 witness: a note that links `a` and also holds `a` as plain text is
\* detected and reported for nothing, while another note is reported for `a`
C10_Witness ==
    /\ main_pc = "done"
    /\ \E d \in Notes :
        /\ notes[d] = LBracket \o LBracket \o LetterA \o RBracket \o RBracket
                          \o Space \o LetterA
        /\ LetterA \in found[d]
        /\ unlinked[d] = {}
    /\ \E n \in 1..Len(reports) : LetterA \in reports[n][2]

\* C17: during the scan of any text the bracket depth n_brackets only takes
\* the values 0, 1 and 2; a `[` met at depth 2 and a `]` met at depth 0
\* leave it unchanged.
C17_DepthRange ==
    /\ [](n_brackets \in {0, 1, 2})
    /\ [][(s' = s \o LBracket /\ n_brackets = 2) => n_brackets' = 2]_vars
    /\ [][(s' = s \o RBracket /\ n_brackets = 0) => n_brackets' = 0]_vars

\* C17 witness: a third `[` met at depth 2, the depth still 2
C17_Witness ==
    /\ pc = "scan"
    /\ s = LBracket \o LBracket \o LBracket
    /\ n_brackets = 2

\* C18: char_prior_to never panics, whatever the offset, also inside a
\* multi-byte character.
C18_NeverPanics == cpt_pc # "panicked"

\* C19: at every link close the offsets of the slice satisfy
\* start <= end <= len(text).
C19_SliceBounds ==
    \A cl \in closes : cl[1] <= cl[2] /\ cl[2] <= Len(s)

\* C19 witness: `[[|][a]]` returned: the end recorded at the pipe lies
\* before the start recorded at the later `[` and is replaced at the close
C19_Witness ==
    /\ pc = "done"
    /\ s = LBracket \o LBracket \o Pipe \o RBracket \o LBracket \o LetterA
               \o RBracket \o RBracket
    /\ closes = {<<5, 6>>}
    /\ links = {LetterA}

\* C20: in every state of the scan, "inside a pipe segment" implies "inside
\* a link" and "inside a link" implies depth 1 or 2.
C20_FlagsAndDepth ==
    /\ in_pipe => in_wikilink
    /\ in_wikilink => n_brackets \in {1, 2}

\* C20 witness: inside the alias of a link whose inner bracket was closed
C20_Witness ==
    /\ pc = "scan"
    /\ in_pipe
    /\ in_wikilink
    /\ n_brackets = 1

\* the byte offsets at which the characters of t start, from offset i on
RECURSIVE CharStarts(_, _)
CharStarts(t, i) ==
    IF i >= Len(t) THEN {} ELSE {i} \cup CharStarts(t, i + CharLen(t[i + 1]))

\* the code point of the character of t that starts at offset k
CodeAt(t, k) == DecodeFirst(SubSeq(t, k + 1, Len(t)))

\* p occurs in t at byte offset k
Occurs(p, t, k) ==
    k + Len(p) <= Len(t) /\ SubSeq(t, k + 1, k + Len(p)) = p

\* the character of t that ends at offset k is alphanumeric
AlnumBefore(t, k) ==
    \E j \in CharStarts(t, 0) :
        j + CharLen(t[j + 1]) = k /\ IsAlphanumeric(CodeAt(t, j))

\* the character of t that starts at offset k is alphanumeric
AlnumAfter(t, k) ==
    k \in CharStarts(t, 0) /\ IsAlphanumeric(CodeAt(t, k))

\* p occurs in t at offset k with no alphanumeric character on either side
FreeOccurrence(p, t, k) ==
    /\ Occurs(p, t, k)
    /\ ~AlnumBefore(t, k)
    /\ ~AlnumAfter(t, k + Len(p))

\* C11: every term found or reported for a note has an occurrence in the
\* note's text whose preceding and following characters are absent or not
\* alphanumeric.
C11_WordBoundary ==
    /\ \A d \in DOMAIN found : \A u \in found[d] \cup unlinked[d] :
        \E k \in 0..Len(notes[d]) : FreeOccurrence(u, notes[d], k)
    /\ \A n \in 1..Len(reports) : \A u \in reports[n][2] :
        \E k \in 0..Len(notes[reports[n][1]]) :
            FreeOccurrence(u, notes[reports[n][1]], k)

\* C11 witness: `a` is in the vocabulary; the note `ab` and the note with
\* `a` after a multi-byte letter are reported for nothing
C11_Witness ==
    /\ main_pc = "done"
    /\ LetterA \in searcher
    /\ \E d \in DOMAIN notes : notes[d] = Higashi \o LetterA /\ found[d] = {}
    /\ reports = <<>>

\* the spans of wikilink markup of t: from a `[[` to the end of the first
\* `]]` after it
MarkupSpans(t) ==
    {sp \in (0..Len(t)) \X (0..(Len(t) + 2)) :
        /\ Occurs(LBracket \o LBracket, t, sp[1])
        /\ sp[1] + 2 <= sp[2] - 2
        /\ Occurs(RBracket \o RBracket, t, sp[2] - 2)
        /\ \A r \in (sp[1] + 2)..(sp[2] - 3) : ~Occurs(RBracket \o RBracket, t, r)}

\* the occurrence of p at offset k of t lies outside every markup span
OutsideMarkup(p, t, k) ==
    \A sp \in MarkupSpans(t) : k + Len(p) <= sp[1] \/ sp[2] <= k

\* an occurrence of another vocabulary entry, or another occurrence of p,
\* that the searcher prefers to the occurrence of p at offset k: it overlaps
\* it and starts earlier, or starts at k and is longer
Preferred(V, p, t, k) ==
    \E q \in V : \E j \in 0..Len(t) :
        /\ Occurs(q, t, j)
        /\ \/ (j < k /\ j + Len(q) > k)
           \/ (j = k /\ Len(q) > Len(p))

\* C12 (as stated): a vocabulary entry with a free occurrence in a note that
\* does not declare it is reported for that note, whatever else the
\* vocabulary contains.
C12_Complete ==
    \A d \in DOMAIN unlinked : \A p \in searcher :
        ((\E k \in 0..Len(notes[d]) : FreeOccurrence(p, notes[d], k))
            /\ p \notin note_links[d])
        => p \in unlinked[d]

\* C12 (amended): a vocabulary entry with a free occurrence in a note that
\* does not declare it is reported for that note, provided no occurrence of
\* a vocabulary entry overlaps that occurrence from an earlier start or
\* from the same start with a greater length.
C12_CompleteUnlessPreferred ==
    /\ \A d \in DOMAIN unlinked : \A p \in searcher :
        ((\E k \in 0..Len(notes[d]) :
              FreeOccurrence(p, notes[d], k) /\ ~Preferred(searcher, p, notes[d], k))
            /\ p \notin note_links[d])
        => p \in unlinked[d]
    /\ main_pc = "done" =>
        \A d \in DOMAIN unlinked : unlinked[d] # {} =>
            \E n \in 1..Len(reports) : reports[n] = <<d, unlinked[d]>>

\* C12 witness: the note `a b` is reported for `a`, which another note links
C12_Witness ==
    /\ main_pc = "done"
    /\ searcher = {LetterA}
    /\ \E n \in 1..Len(reports) :
        /\ notes[reports[n][1]] = LetterA \o Space \o LetterB
        /\ reports[n][2] = {LetterA}

\* C13: every term reported for a note has an occurrence in the note's text
\* that lies outside every `[[`...`]]` span.
C13_OutsideMarkup ==
    \A d \in DOMAIN unlinked : \A u \in unlinked[d] :
        \E k \in 0..Len(notes[d]) :
            Occurs(u, notes[d], k) /\ OutsideMarkup(u, notes[d], k)

\* the targets of every note, as wikilinks returns them
RefLinks == [d \in Notes |-> wikilinks(notes[d]).links]

\* the report of note d as the notes alone determine it
RefUnlinked(d) ==
    LET ms == FindIter(AllLinks(RefLinks), notes[d], 0)
    IN  Unlinked(FoundLoop(notes[d], ms, 1, {}).found, RefLinks[d])

\* C14: whatever the order in which the detection tasks run, the report of
\* each note, and whether one is printed, is the same: it is determined by
\* the notes alone; only the order of the printed lines may differ.
C14_OrderInsensitive ==
    /\ \A d \in DOMAIN unlinked : unlinked[d] = RefUnlinked(d)
    /\ \A n \in 1..Len(reports) :
        /\ reports[n][2] # {}
        /\ reports[n] = <<reports[n][1], RefUnlinked(reports[n][1])>>
        /\ \A m \in 1..Len(reports) : reports[m][1] = reports[n][1] => m = n
    /\ \A d \in DOMAIN unlinked :
        RefUnlinked(d) # {} => \E n \in 1..Len(reports) : reports[n][1] = d
    /\ main_pc = "panicked" => reports = <<>>

\* C14 witness: two notes reported, the second note's line printed first
C14_Witness ==
    /\ main_pc = "done"
    /\ notes[1] = LBracket \o LBracket \o LetterA \o RBracket \o RBracket
                      \o Space \o LetterB
    /\ reports = <<<<2, {LetterA}>>, <<1, {LetterB}>>>>

\* a step that modifies the vocabulary or the searcher
SharedModified == searcher' # searcher \/ all_links' # all_links

\* C15: the searcher is built once, and only after the targets of every
\* note were extracted; no detection starts before it is built; the
\* vocabulary and the searcher are not modified once detection has started.
C15_Barrier ==
    /\ [](main_pc \in {"build", "detect", "done"} => DOMAIN note_links = Notes)
    /\ [](DOMAIN found # {} => main_pc \in {"detect", "done", "panicked"})
    /\ [][SharedModified => main_pc \in {"extract", "build"}]_vars
    /\ [][(main_pc \in {"detect", "done"}) => (main_pc' \notin {"extract", "build"})]_vars
    /\ [][(main_pc = "build") => (main_pc' \in {"build", "detect"})]_vars

\* C15 witness: a run over, with a non-empty searcher and every note detected
C15_Witness ==
    /\ main_pc = "done"
    /\ Cardinality(searcher) = 2
    /\ DOMAIN found = Notes
    /\ reports # <<>>

\* a document that could not be read: open, metadata or read_to_string failed
Unreadable(e) == e.kind \in {"open_err", "meta_err", "read_err"}

\* C16: when a document of the walk cannot be read, nothing is extracted,
\* built or printed and no note is kept; once the failure has been met the
\* run is over with the error, and the run does end with it.
C16_LoadFailureAborts ==
    /\ []((\E k \in 1..Len(walked) : Unreadable(walked[k])) =>
            /\ main_pc \in {"load", "error"}
            /\ notes = <<>> /\ note_links = <<>> /\ all_links = {}
            /\ searcher = {} /\ found = <<>> /\ reports = <<>>)
    /\ []((\E k \in DOMAIN results : Unreadable(Paths[k])) => main_pc = "error")
    /\ [][(main_pc = "error") => (main_pc' = "error")]_vars
    /\ ((\E k \in 1..Len(walked) : Unreadable(walked[k])) ~> (main_pc = "error"))

\* C16 witness: a walk of a readable file and an unreadable one; the file was
\* read first, and the run ended with the error
C16_Witness ==
    /\ main_pc = "error"
    /\ \E k \in DOMAIN results : results[k].tag = "some"
    /\ \E k \in DOMAIN results : Unreadable(Paths[k])
    /\ notes = <<>>
    /\ reports = <<>>

====
